---- MODULE Spec2Model ----
(***************************************************************************)
(* Model of the mind-map pipeline of Paper-reading-and-visualization:      *)
(*   - buildTreeFromFlatList, adopt-first-root variant                     *)
(*     (src/services/geminiService.ts) and synthetic-root variant          *)
(*     (src/unnamed/part_001);                                             *)
(*   - the block layouts: left-to-right (src/components/OutlineView.tsx,   *)
(*     calculateSubtreeHeight + assignPositions) and top-down              *)
(*     (src/components/MindMapGraph.tsx, calculateSubtreeSize +            *)
(*     assignPositions).                                                   *)
(*                                                                         *)
(* Node objects live in a heap: every object literal the code evaluates    *)
(* allocates the next address (1, 2, ...), so that object identity (one    *)
(* node pushed into two children lists, a node pushed into its own list)   *)
(* is visible.  JavaScript values that are not strings are tagged records. *)
(***************************************************************************)
EXTENDS Integers, Sequences, FiniteSets, TLC

VARIABLES
    stage,      \* "idle" | "built" | "failed" | "laidOut" | "crashed"
    variant,    \* which buildTreeFromFlatList ran: "none" | "adopt" | "synthetic"
    flatNodes,  \* the flat record list handed to buildTreeFromFlatList
    heap,       \* address -> node object [id, src, pageNumber, quote, children]
    nodeMap,    \* the Map<string, MindMapNode> of the last build
    root,       \* address of the returned root (NullRef: none)
    error,      \* message of the Error thrown ("" : none)
    layout,     \* which layout ran: "none" | "LR" | "TD"
    height,     \* node.height scratch field: address -> number, where set
    width,      \* node.width scratch field: address -> number, where set
    options,    \* MindMapOptions of the graph component
    nodes,      \* emitted React Flow node list
    edges,      \* emitted React Flow edge list
    runs,       \* how often the layout useMemo body ran on the current data
    passes,     \* how many layout passes (metric, assignPositions) were invoked
    file,       \* App state: the selected File (JsNull: none)
    mindMapData,    \* App state: address of the data's root (NullRef: null)
    status,     \* App state: ProcessingStatus [step, message]
    currentPage,    \* App state
    activeQuote,    \* App state: a string or undefined
    isSidebarOpen,  \* App state
    activeTab,  \* App state: TabMode
    pending,    \* the call handleFileSelect awaits: "none" | "extract" | "generate"
    generateCalls,  \* calls of generateMindMap by the current handleFileSelect
    thrown,     \* message of the Error the awaited call rejected with, if any
    lastClick,  \* the last click on a rendered node and the callbacks it made
    race        \* the calls of the timed extractTextFromPDF, one record each

\* the state of the tree pipeline
pipeVars == <<stage, variant, flatNodes, heap, nodeMap, root, error,
              layout, height, width, options, nodes, edges, runs, passes>>

\* the state of the App component and of its running handleFileSelect
appVars == <<file, mindMapData, status, currentPage, activeQuote,
             isSidebarOpen, activeTab, pending, generateCalls, thrown,
             lastClick, race>>

vars == <<pipeVars, appVars>>

----------------------------------------------------------------------------
(* Bounds of the model *)

MaxRecords == 3

MaxTreeNodes == 6

\* how often the layout is run on one tree instance
MaxRuns == 2

----------------------------------------------------------------------------
(* JavaScript values *)

JsNull == [t |-> "null", s |-> ""]

JsUndefined == [t |-> "undefined", s |-> ""]

Str(s) == [t |-> "string", s |-> s]

Num(n) == [t |-> "number", n |-> n]

\* ToBoolean of a parentId value: null and "" are falsy, other strings truthy
Truthy(v) == v.t = "string" /\ v.s # ""

Range(q) == {q[i] : i \in DOMAIN q}

Max(a, b) == IF a >= b THEN a ELSE b

\* x / 2 on a number the layout only ever halves when even; an odd operand
\* has no model value and stops the check
Half(n) == IF n % 2 = 0 THEN n \div 2 ELSE CHOOSE k \in {} : 2 * k = n

NullRef == 0

----------------------------------------------------------------------------
(* Inputs: ids the generator may return and the parentIds it may name *)

SYNTHETIC_ID == "root-synthetic"

IdVals == {"a", "b", SYNTHETIC_ID}

\* null, a missing field, "", "null", the id of a record, or an id ("x") of none
ParentVals ==
    {JsNull, JsUndefined, Str(""), Str("null")}
        \cup {Str(s) : s \in IdVals \cup {"x"}}

RawRecords == [id : IdVals, parentId : ParentVals]

Inputs == UNION {[1..n -> RawRecords] : n \in 0..MaxRecords}

\* inputs with records whose id is one of the strings that parentId
\* normalization singles out, "null" and ""
NormIdVals == {"a", "null", ""}

NormParentVals ==
    {JsNull, JsUndefined, Str(""), Str("null"), Str("a"), Str("x")}

NormRecords == [id : NormIdVals, parentId : NormParentVals]

NormInputs == UNION {[1..n -> NormRecords] : n \in 0..MaxRecords}

\* inputs whose records carry a pageNumber: missing, null, a string, or a
\* number (positive, zero, negative)
PageVals == {JsUndefined, JsNull, Str("3"), Num(3), Num(0), Num(-1)}

PageRecords ==
    [id : {"a", "b"}, parentId : {JsNull, Str("a")}, pageNumber : PageVals]

PageInputs == UNION {[1..n -> PageRecords] : n \in 0..MaxRecords}

----------------------------------------------------------------------------
(* Map<string, MindMapNode>: keys in insertion order, key -> address *)

EmptyMap == [keys |-> <<>>, val |-> [k \in {} |-> NullRef]]

MapHas(m, k) == k \in DOMAIN m.val

MapSet(m, k, v) ==
    [keys |-> IF MapHas(m, k) THEN m.keys ELSE Append(m.keys, k),
     val  |-> [x \in DOMAIN m.val \cup {k} |-> IF x = k THEN v ELSE m.val[x]]]

MapSize(m) == Len(m.keys)

\* nodeMap.values() in iteration order
MapValues(m) == [i \in 1..Len(m.keys) |-> m.val[m.keys[i]]]

\* raw.f of a record of the generator; a field it left out reads undefined
RawField(raw, f) == IF f \in DOMAIN raw THEN raw[f] ELSE JsUndefined

\* typeof raw.pageNumber === 'number' ? raw.pageNumber : 1
PageNumberOf(raw) ==
    LET v == RawField(raw, "pageNumber")
    IN  IF v.t = "number" THEN v.n ELSE 1

\* raw.quote || ""
QuoteOf(raw) ==
    LET v == RawField(raw, "quote")
    IN  IF Truthy(v) THEN v ELSE Str("")

NewNode(id, src, pageNumber, quote) ==
    [id |-> id, src |-> src, pageNumber |-> pageNumber, quote |-> quote,
     children |-> <<>>]

\* the node put in front of the parent's children instead of behind them
PushChild_front(h, parent, node) ==
    [h EXCEPT ![parent].children = <<node>> \o @]

\* parent.children.push(node)
PushChild(h, parent, node) ==
    [h EXCEPT ![parent].children = Append(@, node)]

----------------------------------------------------------------------------
(* buildTreeFromFlatList, pass 1: one node object per record; a repeated   *)
(* id replaces the map entry and keeps the key's first position.           *)

RECURSIVE CreateNodes(_, _, _)
CreateNodes(flat, i, st) ==
    IF i > Len(flat) THEN st
    ELSE CreateNodes(flat, i + 1,
            [heap    |-> Append(st.heap,
                            NewNode(flat[i].id, i, PageNumberOf(flat[i]),
                                    QuoteOf(flat[i]))),
             nodeMap |-> MapSet(st.nodeMap, flat[i].id, Len(st.heap) + 1)])

----------------------------------------------------------------------------
(* Adopt-first-root variant, src/services/geminiService.ts *)

\* the parentId taken as it comes
AdoptCleanParentId_raw(p) == p

\* (raw.parentId === "null" || raw.parentId === "") ? null : raw.parentId
AdoptCleanParentId(p) ==
    IF p = Str("null") \/ p = Str("") THEN JsNull ELSE p

AdoptLinkOne(st, raw) ==
    LET node == st.nodeMap.val[raw.id]
        pId  == AdoptCleanParentId(raw.parentId)
    IN  IF Truthy(pId)
        THEN IF MapHas(st.nodeMap, pId.s)
             THEN [st EXCEPT !.heap = PushChild(st.heap, st.nodeMap.val[pId.s], node)]
             ELSE st
        ELSE IF st.root = NullRef THEN [st EXCEPT !.root = node] ELSE st

RECURSIVE AdoptLink(_, _, _)
AdoptLink(flat, i, st) ==
    IF i > Len(flat) THEN st
    ELSE AdoptLink(flat, i + 1, AdoptLinkOne(st, flat[i]))

EMPTY_ERROR == "The mind map returned by AI was empty."

AdoptFallback(st) ==
    IF st.root # NullRef THEN [ok |-> TRUE, st |-> st]
    ELSE IF MapSize(st.nodeMap) > 0
         THEN [ok |-> TRUE, st |-> [st EXCEPT !.root = MapValues(st.nodeMap)[1]]]
         ELSE [ok |-> FALSE, st |-> st]

buildTreeAdopt(flat) ==
    LET created == CreateNodes(flat, 1, [heap |-> <<>>, nodeMap |-> EmptyMap])
        linked  == AdoptLink(flat, 1,
                      [heap |-> created.heap, nodeMap |-> created.nodeMap,
                       root |-> NullRef])
    IN  AdoptFallback(linked)

----------------------------------------------------------------------------
(* Synthetic-root variant, src/unnamed/part_001 *)

\* if (pId === "null" || pId === null || pId === undefined) pId = null;
\* else pId = String(pId)   (a string is its own String())
SyntheticCleanParentId(p) ==
    IF p = Str("null") \/ p = JsNull \/ p = JsUndefined THEN JsNull ELSE p

\* the linking step with a dangling parentId left unattached
SyntheticLinkOne_dropDangling(st, raw) ==
    LET node == st.nodeMap.val[raw.id]
        pId  == SyntheticCleanParentId(raw.parentId)
    IN  IF Truthy(pId)
        THEN IF MapHas(st.nodeMap, pId.s)
             THEN [st EXCEPT !.heap = PushChild(st.heap, st.nodeMap.val[pId.s], node)]
             ELSE st
        ELSE [st EXCEPT !.heap = PushChild(st.heap, st.root, node)]

SyntheticLinkOne(st, raw) ==
    LET node == st.nodeMap.val[raw.id]
        pId  == SyntheticCleanParentId(raw.parentId)
    IN  IF Truthy(pId) /\ MapHas(st.nodeMap, pId.s)
        THEN [st EXCEPT !.heap = PushChild(st.heap, st.nodeMap.val[pId.s], node)]
        ELSE [st EXCEPT !.heap = PushChild(st.heap, st.root, node)]

RECURSIVE SyntheticLink(_, _, _)
SyntheticLink(flat, i, st) ==
    IF i > Len(flat) THEN st
    ELSE SyntheticLink(flat, i + 1, SyntheticLinkOne(st, flat[i]))

RECURSIVE AttachAll(_, _, _)
AttachAll(st, vals, i) ==
    IF i > Len(vals) THEN st
    ELSE AttachAll([st EXCEPT !.heap = PushChild(st.heap, st.root, vals[i])],
                   vals, i + 1)

SyntheticFallback(st) ==
    IF Len(st.heap[st.root].children) = 0 /\ MapSize(st.nodeMap) > 0
    THEN AttachAll(st, MapValues(st.nodeMap), 1)
    ELSE st

buildTreeSynthetic(flat) ==
    LET created == CreateNodes(flat, 1, [heap |-> <<>>, nodeMap |-> EmptyMap])
        withRoot == [heap    |-> Append(created.heap,
                                    NewNode(SYNTHETIC_ID, 0, 1, JsUndefined)),
                     nodeMap |-> created.nodeMap,
                     root    |-> Len(created.heap) + 1]
        linked  == SyntheticLink(flat, 1, withRoot)
    IN  [ok |-> TRUE, st |-> SyntheticFallback(linked)]

----------------------------------------------------------------------------
(* Layout, shared *)

DefaultOptions == [edgeType |-> "smoothstep", fontSize |-> "medium"]

\* every font size rendered with the medium class
FontSizeClass_fixed(fontSize) == "text-sm"

FontSizeClass(fontSize) ==
    CASE fontSize = "small"  -> "text-xs"
      [] fontSize = "medium" -> "text-sm"
      [] fontSize = "large"  -> "text-base"

\* node.height = v / node.width = v
SetField(f, node, v) ==
    [a \in DOMAIN f \cup {node} |-> IF a = node THEN v ELSE f[a]]

\* the parentId argument of assignPositions: undefined at the root call
ParentIdArg(h, parent) ==
    IF parent = NullRef THEN JsUndefined ELSE Str(h[parent].id)

\* the record pushed to nodes; node, parent and cursor are history fields
\* (the object laid out, its caller's object, the secondary-axis cursor
\* value the call received), not part of the React Flow node
EmitNode(h, node, parent, cursor, px, py, opts) ==
    [id |-> h[node].id, x |-> px, y |-> py,
     pageNumber |-> h[node].pageNumber, quote |-> h[node].quote,
     fontSizeClass |-> FontSizeClass(opts.fontSize),
     node |-> node, parent |-> parent, cursor |-> cursor]

\* the edge drawn from the node to its parent instead
EmitEdge_swapped(h, node, parent, es, opts) ==
    LET parentId == IF parent = NullRef THEN "" ELSE h[parent].id
    IN  IF parentId # ""
        THEN Append(es, [id     |-> parentId \o "-" \o h[node].id,
                         source |-> h[node].id,
                         target |-> parentId,
                         type   |-> opts.edgeType])
        ELSE es

\* the edge put in front of the edges collected so far
EmitEdge_unshift(h, node, parent, es, opts) ==
    LET parentId == IF parent = NullRef THEN "" ELSE h[parent].id
    IN  IF parentId # ""
        THEN <<[id     |-> parentId \o "-" \o h[node].id,
                source |-> parentId,
                target |-> h[node].id,
                type   |-> opts.edgeType]>> \o es
        ELSE es

\* if (parentId) edges.push({id: `${parentId}-${node.id}`, ...})
EmitEdge(h, node, parent, es, opts) ==
    LET parentId == ParentIdArg(h, parent)
    IN  IF Truthy(parentId)
        THEN Append(es, [id     |-> parentId.s \o "-" \o h[node].id,
                         source |-> parentId.s,
                         target |-> h[node].id,
                         type   |-> opts.edgeType])
        ELSE es

NoOutput == [nodes |-> <<>>, edges |-> <<>>]

STACK_ERROR == "RangeError: Maximum call stack size exceeded"

TYPE_ERROR == "TypeError: Cannot read properties of null (reading 'root')"

----------------------------------------------------------------------------
(* Left-to-right layout, src/components/OutlineView.tsx                    *)
(* A call on a node that is already on the call chain repeats the same     *)
(* calls for ever (control flow reads only children lists): the pass does  *)
(* not return, and the engine ends it with a RangeError.  ok = FALSE.      *)

LR_NODE_WIDTH == 280

LR_NODE_HEIGHT == 140

RANK_SPACING == 140

NODE_SPACING == 24

\* the footprint with the children's total ignored
subtreeHeightOf_baseOnly(totalHeight) == LR_NODE_HEIGHT

\* every footprint padded by one sibling gap
subtreeHeightOf_padded(totalHeight) ==
    Max(LR_NODE_HEIGHT, totalHeight) + NODE_SPACING

\* node.height = Math.max(NODE_HEIGHT, totalHeight)
subtreeHeightOf(totalHeight) == Max(LR_NODE_HEIGHT, totalHeight)

\* the children's total begun from the footprint an earlier run left
initialTotal_stale(hts, node) ==
    IF node \in DOMAIN hts THEN hts[node] ELSE 0

\* let totalHeight = 0 / let totalWidth = 0
initialTotal(hts, node) == 0

RECURSIVE calculateSubtreeHeight(_, _, _, _)
RECURSIVE SumChildHeights(_, _, _, _, _, _)
calculateSubtreeHeight(h, hts, node, onStack) ==
    IF node \in onStack THEN [ok |-> FALSE, height |-> hts, ret |-> 0]
    ELSE IF Len(h[node].children) = 0
    THEN [ok |-> TRUE, height |-> SetField(hts, node, LR_NODE_HEIGHT),
          ret |-> LR_NODE_HEIGHT]
    ELSE LET r == SumChildHeights(h, hts, node, 1, initialTotal(hts, node),
                                  onStack \cup {node})
         IN  IF ~r.ok THEN r
             ELSE [ok |-> TRUE,
                   height |-> SetField(r.height, node, subtreeHeightOf(r.ret)),
                   ret |-> subtreeHeightOf(r.ret)]

\* node.children.forEach((child, index) => ...), index counted from 1 here
SumChildHeights(h, hts, node, index, totalHeight, onStack) ==
    IF index > Len(h[node].children)
    THEN [ok |-> TRUE, height |-> hts, ret |-> totalHeight]
    ELSE LET c == calculateSubtreeHeight(h, hts, h[node].children[index], onStack)
         IN  IF ~c.ok THEN c
             ELSE SumChildHeights(h, c.height, node, index + 1,
                      totalHeight + c.ret
                        + (IF index < Len(h[node].children) THEN NODE_SPACING ELSE 0),
                      onStack)

\* the node at the top of its span instead of centred
nodeYLR_topAligned(y, nodeHeight) == y

\* const myY = y + (node.height! / 2) - (NODE_HEIGHT / 2)
nodeYLR(y, nodeHeight) == y + Half(nodeHeight) - Half(LR_NODE_HEIGHT)

\* node.children.reduce((acc, c) => acc + (c.height || 0), 0)
RECURSIVE ReduceHeights(_, _, _)
ReduceHeights(hts, children, i) ==
    IF i > Len(children) THEN 0
    ELSE (IF children[i] \in DOMAIN hts THEN hts[children[i]] ELSE 0)
         + ReduceHeights(hts, children, i + 1)

childrenStackHeight(hts, children) ==
    ReduceHeights(hts, children, 1) + (Len(children) - 1) * NODE_SPACING

\* const offset = (node.height! - childrenStackHeight) / 2
childrenOffsetLR(nodeHeight, stackHeight) == Half(nodeHeight - stackHeight)

\* the cursor advance with the sibling gap forgotten
nextSiblingY_noGap(currentY, childHeight) == currentY + childHeight

\* currentY += child.height! + NODE_SPACING
nextSiblingY(currentY, childHeight) == currentY + childHeight + NODE_SPACING

\* the next rank placed right against the node's box
childRankX_noGap(x) == x + LR_NODE_WIDTH

\* const childX = x + NODE_WIDTH + RANK_SPACING
childRankX(x) == x + LR_NODE_WIDTH + RANK_SPACING

RECURSIVE assignPositionsLR(_, _, _, _, _, _, _, _)
RECURSIVE PlaceChildrenLR(_, _, _, _, _, _, _, _)
assignPositionsLR(h, hts, node, x, y, out, opts, parent) ==
    LET myY  == nodeYLR(y, hts[node])
        out1 == [nodes |-> Append(out.nodes,
                              EmitNode(h, node, parent, y, x, myY, opts)),
                 edges |-> EmitEdge(h, node, parent, out.edges, opts)]
    IN  IF Len(h[node].children) > 0
        THEN PlaceChildrenLR(h, hts, node, 1, childRankX(x),
                 y + childrenOffsetLR(hts[node],
                         childrenStackHeight(hts, h[node].children)),
                 out1, opts)
        ELSE out1

PlaceChildrenLR(h, hts, node, i, childX, currentY, out, opts) ==
    IF i > Len(h[node].children) THEN out
    ELSE PlaceChildrenLR(h, hts, node, i + 1, childX,
             nextSiblingY(currentY, hts[h[node].children[i]]),
             assignPositionsLR(h, hts, h[node].children[i], childX, currentY,
                               out, opts, node),
             opts)

----------------------------------------------------------------------------
(* Top-down layout, src/components/MindMapGraph.tsx *)

TD_NODE_WIDTH == 260

TD_NODE_HEIGHT == 140

X_SPACING == 30

Y_SPACING == 80

\* the footprint with the children's total ignored
subtreeWidthOf_baseOnly(totalWidth) == TD_NODE_WIDTH

\* node.width = Math.max(NODE_WIDTH, totalWidth)
subtreeWidthOf(totalWidth) == Max(TD_NODE_WIDTH, totalWidth)

RECURSIVE calculateSubtreeSize(_, _, _, _)
RECURSIVE SumChildWidths(_, _, _, _, _, _)
calculateSubtreeSize(h, wds, node, onStack) ==
    IF node \in onStack THEN [ok |-> FALSE, width |-> wds, ret |-> 0]
    ELSE IF Len(h[node].children) = 0
    THEN [ok |-> TRUE, width |-> SetField(wds, node, TD_NODE_WIDTH),
          ret |-> TD_NODE_WIDTH]
    ELSE LET r == SumChildWidths(h, wds, node, 1, initialTotal(wds, node),
                                 onStack \cup {node})
         IN  IF ~r.ok THEN r
             ELSE [ok |-> TRUE,
                   width |-> SetField(r.width, node, subtreeWidthOf(r.ret)),
                   ret |-> subtreeWidthOf(r.ret)]

SumChildWidths(h, wds, node, index, totalWidth, onStack) ==
    IF index > Len(h[node].children)
    THEN [ok |-> TRUE, width |-> wds, ret |-> totalWidth]
    ELSE LET c == calculateSubtreeSize(h, wds, h[node].children[index], onStack)
         IN  IF ~c.ok THEN c
             ELSE SumChildWidths(h, c.width, node, index + 1,
                      totalWidth + c.ret
                        + (IF index < Len(h[node].children) THEN X_SPACING ELSE 0),
                      onStack)

\* the node left-aligned in its span instead of centred
nodeXTD_leftAligned(x, nodeWidth) == x

\* const myX = x + (node.width! / 2) - (NODE_WIDTH / 2)
nodeXTD(x, nodeWidth) == x + Half(nodeWidth) - Half(TD_NODE_WIDTH)

\* currentX += child.width! + X_SPACING
nextSiblingX(currentX, childWidth) == currentX + childWidth + X_SPACING

\* y + NODE_HEIGHT + Y_SPACING, the y handed to the children
childRankY(y) == y + TD_NODE_HEIGHT + Y_SPACING

RECURSIVE assignPositionsTD(_, _, _, _, _, _, _, _)
RECURSIVE PlaceChildrenTD(_, _, _, _, _, _, _, _)
assignPositionsTD(h, wds, node, x, y, out, opts, parent) ==
    LET myX  == nodeXTD(x, wds[node])
        out1 == [nodes |-> Append(out.nodes,
                              EmitNode(h, node, parent, x, myX, y, opts)),
                 edges |-> EmitEdge(h, node, parent, out.edges, opts)]
    IN  IF Len(h[node].children) > 0
        THEN PlaceChildrenTD(h, wds, node, 1, x, childRankY(y), out1, opts)
        ELSE out1

PlaceChildrenTD(h, wds, node, i, currentX, childY, out, opts) ==
    IF i > Len(h[node].children) THEN out
    ELSE PlaceChildrenTD(h, wds, node, i + 1,
             nextSiblingX(currentX, wds[h[node].children[i]]),
             childY,
             assignPositionsTD(h, wds, h[node].children[i], currentX, childY,
                               out, opts, node),
             opts)

----------------------------------------------------------------------------
(* State machine *)

NoScratch == [a \in {} |-> 0]

NoClick == [page |-> 0, quote |-> JsUndefined, calls |-> <<>>]

\* useState initial values of App; no handleFileSelect is running
InitApp ==
    /\ file = JsNull
    /\ mindMapData = NullRef
    /\ status = [step |-> "idle", message |-> JsUndefined]
    /\ currentPage = 1
    /\ activeQuote = JsUndefined
    /\ isSidebarOpen = TRUE
    /\ activeTab = "abstract"
    /\ pending = "none"
    /\ generateCalls = 0
    /\ thrown = JsUndefined
    /\ lastClick = NoClick
    /\ race = <<>>

Init ==
    /\ InitApp
    /\ stage = "idle"
    /\ variant = "none"
    /\ flatNodes = <<>>
    /\ heap = <<>>
    /\ nodeMap = EmptyMap
    /\ root = NullRef
    /\ error = ""
    /\ layout = "none"
    /\ height = NoScratch
    /\ width = NoScratch
    /\ options = DefaultOptions
    /\ nodes = <<>>
    /\ edges = <<>>
    /\ runs = 0
    /\ passes = 0

Built(v, flat, r) ==
    /\ variant' = v
    /\ flatNodes' = flat
    /\ heap' = r.st.heap
    /\ nodeMap' = r.st.nodeMap
    /\ root' = IF r.ok THEN r.st.root ELSE NullRef
    /\ stage' = IF r.ok THEN "built" ELSE "failed"
    /\ error' = IF r.ok THEN "" ELSE EMPTY_ERROR
    /\ runs' = 0
    /\ UNCHANGED <<layout, height, width, options, nodes, edges, passes>>

BuildAdopt ==
    /\ stage = "idle"
    /\ \E flat \in Inputs : Built("adopt", flat, buildTreeAdopt(flat))
    /\ UNCHANGED appVars

BuildSynthetic ==
    /\ stage = "idle"
    /\ \E flat \in Inputs : Built("synthetic", flat, buildTreeSynthetic(flat))
    /\ UNCHANGED appVars

\* stages in which the graph component can render: with no data yet, after a
\* failed build, with a tree, and again with the tree it has laid out
MemoStages == {"idle", "failed", "built", "laidOut"}

\* the guard on null data left out
isNullData_never(r) == FALSE

\* if (!data)
isNullData(r) == r = NullRef

\* useMemo of MindMapGraph: metric pass, then positions from (0, 0); a metric
\* pass that does not return leaves assignPositions uncalled
LaidOut(which, ok, out) ==
    /\ layout' = which
    /\ stage' = IF ok THEN "laidOut" ELSE "crashed"
    /\ error' = IF ok THEN "" ELSE STACK_ERROR
    /\ nodes' = out.nodes
    /\ edges' = out.edges
    /\ runs' = runs + 1
    /\ passes' = passes + (IF ok THEN 2 ELSE 1)
    /\ UNCHANGED <<variant, flatNodes, heap, nodeMap, root, options>>

\* return { initialNodes: [], initialEdges: [] }
EmptyMemo ==
    /\ nodes' = <<>>
    /\ edges' = <<>>
    /\ runs' = runs + 1
    /\ UNCHANGED <<stage, variant, flatNodes, heap, nodeMap, root, error,
                   layout, height, width, options, passes>>

\* data.root evaluated on null: the memo body throws before any pass
NullDeref(which) ==
    /\ layout' = which
    /\ stage' = "crashed"
    /\ error' = TYPE_ERROR
    /\ runs' = runs + 1
    /\ UNCHANGED <<variant, flatNodes, heap, nodeMap, root, height, width,
                   options, nodes, edges, passes>>

LayoutLR ==
    /\ stage \in MemoStages
    /\ layout \in {"none", "LR"}
    /\ runs < MaxRuns
    /\ UNCHANGED appVars
    /\ IF isNullData(root) THEN EmptyMemo
       ELSE IF root = NullRef THEN NullDeref("LR")
       ELSE LET m == calculateSubtreeHeight(heap, height, root, {})
            IN  /\ height' = m.height
                /\ width' = width
                /\ LaidOut("LR", m.ok,
                       IF m.ok
                       THEN assignPositionsLR(heap, m.height, root, 0, 0,
                                              NoOutput, options, NullRef)
                       ELSE NoOutput)

LayoutTD ==
    /\ stage \in MemoStages
    /\ layout \in {"none", "TD"}
    /\ runs < MaxRuns
    /\ UNCHANGED appVars
    /\ IF isNullData(root) THEN EmptyMemo
       ELSE IF root = NullRef THEN NullDeref("TD")
       ELSE LET m == calculateSubtreeSize(heap, width, root, {})
            IN  /\ width' = m.width
                /\ height' = height
                /\ LaidOut("TD", m.ok,
                       IF m.ok
                       THEN assignPositionsTD(heap, m.width, root, 0, 0,
                                              NoOutput, options, NullRef)
                       ELSE NoOutput)

Next == BuildAdopt \/ BuildSynthetic \/ LayoutLR \/ LayoutTD

Spec == Init /\ [][Next]_vars

\* buildTreeFromFlatList alone, either variant, on every input
NextBuild == BuildAdopt \/ BuildSynthetic

SpecBuild == Init /\ [][NextBuild]_vars

\* buildTreeFromFlatList, either variant, on the inputs with ids "null", ""
BuildAdoptNorm ==
    /\ stage = "idle"
    /\ \E flat \in NormInputs : Built("adopt", flat, buildTreeAdopt(flat))
    /\ UNCHANGED appVars

BuildSyntheticNorm ==
    /\ stage = "idle"
    /\ \E flat \in NormInputs :
          Built("synthetic", flat, buildTreeSynthetic(flat))
    /\ UNCHANGED appVars

NextNorm == BuildAdoptNorm \/ BuildSyntheticNorm

SpecNorm == Init /\ [][NextNorm]_vars

\* buildTreeFromFlatList, either variant, on the inputs with pageNumbers
BuildAdoptPage ==
    /\ stage = "idle"
    /\ \E flat \in PageInputs : Built("adopt", flat, buildTreeAdopt(flat))
    /\ UNCHANGED appVars

BuildSyntheticPage ==
    /\ stage = "idle"
    /\ \E flat \in PageInputs :
          Built("synthetic", flat, buildTreeSynthetic(flat))
    /\ UNCHANGED appVars

NextPage == BuildAdoptPage \/ BuildSyntheticPage

SpecPage == Init /\ [][NextPage]_vars

----------------------------------------------------------------------------
(* Layout on no data (data = null) and on every ordered tree of up to      *)
(* MaxTreeNodes + 1 node objects.                                          *)
(* Object 1 is the root and object c > 1 hangs under a lower address       *)
(* par[c], children in address order: what buildTreeFromFlatList returns   *)
(* (adopt-first-root variant) for the records of the tree listed root      *)
(* first with distinct ids, record a on page a and without a quote.        *)

TreeIds == <<"root", "n2", "n3", "n4", "n5", "n6", "n7", "n8">>

ParentVectors(n) ==
    {par \in [2..n -> 1..n] : \A c \in 2..n : par[c] < c}

RECURSIVE Ascending(_)
Ascending(S) ==
    IF S = {} THEN <<>>
    ELSE LET m == CHOOSE x \in S : \A y \in S : x <= y
         IN  <<m>> \o Ascending(S \ {m})

TreeHeap(n, par) ==
    [a \in 1..n |->
        [id |-> TreeIds[a], src |-> a, pageNumber |-> a, quote |-> Str(""),
         children |-> Ascending({c \in 2..n : par[c] = a})]]

InitLayout ==
    /\ InitApp
    /\ variant = "none"
    /\ flatNodes = <<>>
    /\ \/ /\ stage = "built"
          /\ \E n \in 1..(MaxTreeNodes + 1) :
                \E par \in ParentVectors(n) : heap = TreeHeap(n, par)
          /\ root = 1
       \/ /\ stage = "idle"
          /\ heap = <<>>
          /\ root = NullRef
    /\ nodeMap = EmptyMap
    /\ error = ""
    /\ layout = "none"
    /\ height = NoScratch
    /\ width = NoScratch
    /\ options = DefaultOptions
    /\ nodes = <<>>
    /\ edges = <<>>
    /\ runs = 0
    /\ passes = 0

NextLayout == LayoutLR \/ LayoutTD

SpecLayout == InitLayout /\ [][NextLayout]_vars

----------------------------------------------------------------------------
(* Vocabulary of the properties *)

Kids(h, a) == Range(h[a].children)

RECURSIVE Closure(_, _)
Closure(h, S) ==
    LET T == S \cup UNION {Kids(h, a) : a \in S}
    IN  IF T = S THEN S ELSE Closure(h, T)

\* objects reachable from r through zero or more children links
Reachable(h, r) == Closure(h, {r})

\* objects reachable from a through one or more children links
Descendants(h, a) == Closure(h, Kids(h, a))

\* buildTreeFromFlatList returned a tree (and a layout may have run on it)
Returned == variant # "none" /\ stage \in {"built", "laidOut", "crashed"}

IdsOf(flat) == {flat[i].id : i \in DOMAIN flat}

NullLike(p) == p \in {JsNull, JsUndefined, Str(""), Str("null")}

\* record i names a parent id that no record of the input has
Dangling(flat, i) ==
    ~NullLike(flat[i].parentId) /\ flat[i].parentId.s \notin IdsOf(flat)

\* how often object a occurs in the children lists of the returned structure
Occurrences(h, r, a) ==
    Cardinality({pi \in {<<p, i>> : p \in Reachable(h, r), i \in 1..Len(h)} :
                    /\ pi[2] <= Len(h[pi[1]].children)
                    /\ h[pi[1]].children[pi[2]] = a})

----------------------------------------------------------------------------
(* The App component, src/App.tsx: handleFileSelect awaits                 *)
(* extractTextFromPDF, then generateMindMap (adopt-first-root variant),    *)
(* and shows the top-down MindMapGraph and the OutlineView of the data.    *)

MaxAppRecords == 2

PAPER == Str("paper.pdf")

\* what the generator says about a node besides its place in the tree
Details ==
    {[pageNumber |-> JsUndefined, quote |-> JsUndefined],
     [pageNumber |-> Num(2), quote |-> Str("q")]}

AppRecords ==
    {[id |-> i, parentId |-> p, pageNumber |-> d.pageNumber, quote |-> d.quote] :
        i \in {"a", "b"}, p \in {JsNull, Str("a")}, d \in Details}

AppInputs == UNION {[1..n -> AppRecords] : n \in 0..MaxAppRecords}

TabModes == {"map", "outline", "abstract", "report"}

\* messages of the Errors extractTextFromPDF rejects with
ExtractErrors ==
    {"PDF.js library is not loaded. Please refresh the page.",
     "Could not extract any text from the PDF. It might be scanned or image-based.",
     "Unknown error during PDF extraction"}

\* throw new Error(`Failed to generate mind map: ${msg}`)
GenerateFailure(msg) == "Failed to generate mind map: " \o msg

\* messages of the Errors generateMindMap rejects with before it has a node
\* list: the missing key (thrown outside the try) and the wrapped ones
GenerateErrors ==
    {"API_KEY is missing. Please ensure it is set in your environment.",
     GenerateFailure("No response text from AI"),
     GenerateFailure("Invalid response structure: 'nodes' array missing"),
     GenerateFailure("Unknown AI error")}

DEFAULT_ERROR == "Failed to process document. Please try again."

\* the catch block's message for the value thrown
errorMsgOf(e) ==
    IF e.t = "Error" THEN e.message
    ELSE IF e.t = "string" THEN e.s
    ELSE DEFAULT_ERROR

\* the catch block with the failure message discarded
catchStatus_generic(e) ==
    [step |-> "error", message |-> Str(DEFAULT_ERROR)]

\* setStatus({ step: 'error', message: errorMsg })
catchStatus(e) ==
    [step |-> "error", message |-> Str(errorMsgOf(e))]

\* handleFileSelect, the catch block; e is the Error the awaited call threw
Catch(e) ==
    /\ status' = catchStatus(e)
    /\ pending' = "none"
    /\ thrown' = Str(e.message)
    /\ UNCHANGED <<file, mindMapData, currentPage, activeQuote, isSidebarOpen,
                   activeTab, generateCalls, lastClick,
                   race>>

\* handleFileSelect up to its first await; FileUpload is rendered (and a
\* file can be chosen) only while status.step is 'idle'
handleFileSelect ==
    /\ status.step = "idle"
    /\ pending = "none"
    /\ file' = PAPER
    /\ status' = [step |-> "extracting", message |-> Str("Reading PDF contents...")]
    /\ mindMapData' = NullRef
    /\ pending' = "extract"
    /\ generateCalls' = 0
    /\ thrown' = JsUndefined
    /\ UNCHANGED <<currentPage, activeQuote, isSidebarOpen, activeTab, lastClick,
                   race>>
    /\ UNCHANGED pipeVars

\* extractTextFromPDF resolves: setStatus analyzing, generateMindMap(text)
ExtractResolved ==
    /\ pending = "extract"
    /\ status' = [step |-> "analyzing",
                  message |-> Str("Gemini is analyzing structure & generating research ideas...")]
    /\ pending' = "generate"
    /\ generateCalls' = generateCalls + 1
    /\ UNCHANGED <<file, mindMapData, currentPage, activeQuote, isSidebarOpen,
                   activeTab, thrown, lastClick,
                   race>>
    /\ UNCHANGED pipeVars

ExtractRejected ==
    /\ pending = "extract"
    /\ \E msg \in ExtractErrors : Catch([t |-> "Error", message |-> msg])
    /\ UNCHANGED pipeVars

\* generateMindMap got a node list: buildTreeFromFlatList returns the data
\* (setMindMapData, complete, abstract tab) or throws on an empty list, which
\* generateMindMap rethrows wrapped
GenerateParsed ==
    /\ pending = "generate"
    /\ stage = "idle"
    /\ \E flat \in AppInputs :
          LET r == buildTreeAdopt(flat)
          IN  /\ Built("adopt", flat, r)
              /\ IF r.ok
                 THEN /\ mindMapData' = r.st.root
                      /\ status' = [step |-> "complete", message |-> JsUndefined]
                      /\ activeTab' = "abstract"
                      /\ pending' = "none"
                      /\ UNCHANGED <<file, currentPage, activeQuote,
                                     isSidebarOpen, generateCalls, thrown,
                                     lastClick, race>>
                 ELSE Catch([t |-> "Error",
                             message |-> GenerateFailure(EMPTY_ERROR)])

GenerateRejected ==
    /\ pending = "generate"
    /\ \E msg \in GenerateErrors : Catch([t |-> "Error", message |-> msg])
    /\ UNCHANGED pipeVars

\* the split view is on screen
SplitView == file # JsNull /\ status.step = "complete" /\ stage # "crashed"

\* the MindMapGraph of App (top-down) computes its layout
GraphLayout ==
    /\ SplitView
    /\ mindMapData # NullRef
    /\ LayoutTD

\* if (!isSidebarOpen) setIsSidebarOpen(true), with the test forgotten and
\* the sidebar left as it is
sidebarAfterClick_asIs(open) == open

\* if (!isSidebarOpen) setIsSidebarOpen(true)
sidebarAfterClick(open) == IF ~open THEN TRUE ELSE open

\* App.handleNodeClick(pageNumber, quote), called through onNodeClick by a
\* click on the node with the given page and quote
handleNodeClick(pageNumber, quote, nodePage, nodeQuote) ==
    /\ currentPage' = pageNumber
    /\ activeQuote' = quote
    /\ isSidebarOpen' = sidebarAfterClick(isSidebarOpen)
    /\ lastClick' = [page |-> nodePage, quote |-> nodeQuote,
                     calls |-> <<[pageNumber |-> pageNumber, quote |-> quote]>>]
    /\ UNCHANGED <<file, mindMapData, status, activeTab, pending,
                   generateCalls, thrown, race>>
    /\ UNCHANGED pipeVars

\* MindMapGraph.handleNodeClick: onNodeClick(node.data.pageNumber, node.data.quote)
ClickGraphNode ==
    /\ SplitView
    /\ activeTab = "map"
    /\ \E k \in DOMAIN nodes :
          handleNodeClick(nodes[k].pageNumber, nodes[k].quote,
                          heap[nodes[k].node].pageNumber,
                          heap[nodes[k].node].quote)

\* OutlineView: onClick={() => onNodeClick(node.pageNumber, node.quote)}
ClickOutlineNode ==
    /\ SplitView
    /\ activeTab = "outline"
    /\ mindMapData # NullRef
    /\ \E a \in Reachable(heap, mindMapData) :
          handleNodeClick(heap[a].pageNumber, heap[a].quote,
                          heap[a].pageNumber, heap[a].quote)

\* the sidebar buttons: setIsSidebarOpen(false) when open, (true) when closed
ToggleSidebar ==
    /\ SplitView
    /\ isSidebarOpen' = ~isSidebarOpen
    /\ UNCHANGED <<file, mindMapData, status, currentPage, activeQuote,
                   activeTab, pending, generateCalls, thrown, lastClick,
                   race>>
    /\ UNCHANGED pipeVars

SelectTab ==
    /\ SplitView
    /\ \E t \in TabModes : activeTab' = t
    /\ UNCHANGED <<file, mindMapData, status, currentPage, activeQuote,
                   isSidebarOpen, pending, generateCalls, thrown, lastClick,
                   race>>
    /\ UNCHANGED pipeVars

\* the reset with the previous data left in place
dataAfterReset_kept(data) == data

\* setMindMapData(null)
dataAfterReset(data) == NullRef

\* handleReset ("Analyze New Paper" when complete, "Try Again" on error); the
\* views of the dropped data unmount
handleReset ==
    /\ status.step \in {"complete", "error"}
    /\ stage # "crashed"
    /\ file' = JsNull
    /\ mindMapData' = dataAfterReset(mindMapData)
    /\ status' = [step |-> "idle", message |-> JsUndefined]
    /\ activeQuote' = JsUndefined
    /\ UNCHANGED <<currentPage, isSidebarOpen, activeTab, pending, race>>
    /\ generateCalls' = 0
    /\ thrown' = JsUndefined
    /\ lastClick' = NoClick
    /\ stage' = "idle"
    /\ variant' = "none"
    /\ flatNodes' = <<>>
    /\ heap' = <<>>
    /\ nodeMap' = EmptyMap
    /\ root' = NullRef
    /\ error' = ""
    /\ layout' = "none"
    /\ height' = NoScratch
    /\ width' = NoScratch
    /\ nodes' = <<>>
    /\ edges' = <<>>
    /\ runs' = 0
    /\ passes' = 0
    /\ UNCHANGED options

NextApp ==
    \/ handleFileSelect
    \/ ExtractResolved
    \/ ExtractRejected
    \/ GenerateParsed
    \/ GenerateRejected
    \/ GraphLayout
    \/ ClickGraphNode
    \/ ClickOutlineNode
    \/ ToggleSidebar
    \/ SelectTab
    \/ handleReset

SpecApp == Init /\ [][NextApp]_vars

----------------------------------------------------------------------------
(* Tree reconstruction, checked under Spec *)

\* C1 (orphan recovery): in each variant, the node of a record whose
\* parentId names an id absent from the input is reachable from the
\* returned root through children links.
C1_OrphanReachable ==
    Returned =>
        \A i \in DOMAIN flatNodes :
            Dangling(flatNodes, i) =>
                nodeMap.val[flatNodes[i].id] \in Reachable(heap, root)

\* C2 (no cycles): in the returned tree no node is reachable from itself
\* through one or more children links.
C2_NoCycles ==
    Returned =>
        \A a \in Reachable(heap, root) : a \notin Descendants(heap, a)

\* C3 (empty-input failure): in each variant, the empty sequence fails with
\* the empty-result error and returns no tree.
C3_EmptyInputFails ==
    (variant # "none" /\ flatNodes = <<>>) =>
        (stage = "failed" /\ error = EMPTY_ERROR /\ root = NullRef)

\* C4 (layout termination): on every tree buildTreeFromFlatList returns for
\* a non-empty input, the metric pass and assignPositions run to completion
\* (no call re-enters a node that is still on the call chain).
C4_LayoutTerminates ==
    (variant # "none" /\ layout # "none" /\ Len(flatNodes) > 0) =>
        stage = "laidOut"

\* C5 (exclusive ownership): in the returned structure every node object
\* occurs in at most one children list and at most once in it.
C5_ExclusiveOwnership ==
    Returned =>
        \A a \in DOMAIN heap : Occurrences(heap, root, a) <= 1

\* C6 (unique ids): the nodes reached from the returned root through
\* children lists have pairwise distinct ids.
C6_UniqueIds ==
    Returned =>
        \A a, b \in Reachable(heap, root) :
            a # b => heap[a].id # heap[b].id

\* C7 (single root): for an input with at least one record exactly one root
\* is returned, and it is the synthesized placeholder or a node one of whose
\* own records has no resolvable parent (null-like, or naming an absent id).
C7_SingleRoot ==
    (variant # "none" /\ Len(flatNodes) > 0) =>
        /\ Returned
        /\ root \in DOMAIN heap
        /\ \/ heap[root].src = 0
           \/ \E i \in DOMAIN flatNodes :
                 /\ flatNodes[i].id = heap[root].id
                 /\ NullLike(flatNodes[i].parentId) \/ Dangling(flatNodes, i)

----------------------------------------------------------------------------
(* Layout, checked under SpecLayout *)

\* the emitted record of node object a (each object of a tree is emitted once)
Entry(a) == CHOOSE e \in Range(nodes) : e.node = a

\* start of the span allocated to a along the secondary axis
SpanStart(a) == Entry(a).cursor

Footprint(a) == IF layout = "LR" THEN height[a] ELSE width[a]

SpanEnd(a) == SpanStart(a) + Footprint(a)

Spacing == IF layout = "LR" THEN NODE_SPACING ELSE X_SPACING

BoxWidth == IF layout = "LR" THEN LR_NODE_WIDTH ELSE TD_NODE_WIDTH

BoxHeight == IF layout = "LR" THEN LR_NODE_HEIGHT ELSE TD_NODE_HEIGHT

\* emitted coordinate along the secondary axis, and the box size along it
Secondary(e) == IF layout = "LR" THEN e.y ELSE e.x

BoxSecondary == IF layout = "LR" THEN LR_NODE_HEIGHT ELSE TD_NODE_WIDTH

\* the closed rectangles of two emitted nodes share no point
BoxesDisjoint(e, f) ==
    \/ e.x + BoxWidth < f.x
    \/ f.x + BoxWidth < e.x
    \/ e.y + BoxHeight < f.y
    \/ f.y + BoxHeight < e.y

\* C8 (no overlap of sibling spans): after the metric pass and
\* assignPositions, the spans [start, start + footprint] of two children of
\* one parent do not overlap, and consecutive siblings lie exactly the
\* spacing constant apart.
C8_SiblingSpans ==
    stage = "laidOut" =>
        \A p \in DOMAIN heap :
            LET cs == heap[p].children
            IN  /\ \A i \in 1..(Len(cs) - 1) :
                      SpanStart(cs[i + 1]) = SpanEnd(cs[i]) + Spacing
                /\ \A i, j \in 1..Len(cs) :
                      i < j => SpanEnd(cs[i]) < SpanStart(cs[j])

\* a left-to-right layout of a parent with several children, the first of
\* them carrying a subtree wider than one box
C8_Witness ==
    /\ stage = "laidOut"
    /\ layout = "LR"
    /\ \E p \in DOMAIN heap :
          /\ Len(heap[p].children) >= 2
          /\ Footprint(heap[p].children[1]) > LR_NODE_HEIGHT

\* C9 (no box overlap anywhere): in the emitted node list of a tree of
\* pairwise distinct nodes no two nodes' boxes intersect.
C9_NoBoxOverlap ==
    stage = "laidOut" =>
        \A i, j \in DOMAIN nodes :
            i < j => BoxesDisjoint(nodes[i], nodes[j])

\* a layout with cousins: two children of the root that both have children,
\* one of them at least two
C9_Witness ==
    /\ stage = "laidOut"
    /\ \E p, q \in Kids(heap, root) :
          /\ p # q
          /\ Len(heap[p].children) >= 2
          /\ Len(heap[q].children) >= 1

\* C10 (centering): the centre of the box of a node with children, along
\* the secondary axis, is the midpoint of the interval from its first
\* child's span start to its last child's span end (both sides doubled).
C10_Centered ==
    stage = "laidOut" =>
        \A p \in DOMAIN heap :
            LET cs == heap[p].children
            IN  Len(cs) >= 1 =>
                    2 * Secondary(Entry(p)) + BoxSecondary
                        = SpanStart(cs[1]) + SpanEnd(cs[Len(cs)])

\* a top-down layout of a parent whose children have unequal footprints
C10_Witness ==
    /\ stage = "laidOut"
    /\ layout = "TD"
    /\ \E p \in DOMAIN heap :
          /\ Len(heap[p].children) >= 2
          /\ Footprint(heap[p].children[1])
                # Footprint(heap[p].children[Len(heap[p].children)])

\* C11 (edge completeness): for a laid-out tree the number of emitted edges
\* is the number of emitted nodes minus 1, every non-root node is the target
\* of exactly one edge and that edge's source is the id of the node's
\* parent, and the root is the target of no edge.
C11_EdgeComplete ==
    stage = "laidOut" =>
        /\ Len(edges) = Len(nodes) - 1
        /\ \A k \in DOMAIN nodes :
              LET e  == nodes[k]
                  In == {j \in DOMAIN edges : edges[j].target = e.id}
              IN  IF e.node = root THEN In = {}
                  ELSE /\ Cardinality(In) = 1
                       /\ \A j \in In : edges[j].source = heap[e.parent].id

\* a laid-out tree of at least three levels, with a parent of several children
C11_Witness ==
    /\ stage = "laidOut"
    /\ Len(edges) >= 3
    /\ \E p \in DOMAIN heap :
          /\ p # root
          /\ Len(heap[p].children) >= 2

\* C12 (determinism across repeated runs): a run of the layout on a tree
\* that an earlier run has already laid out, with the same options, yields
\* the same node list and the same edge list; the footprints the earlier run
\* left on the nodes do not change the result.
C12_RepeatedRuns ==
    [][(stage = "laidOut" /\ stage' = "laidOut" /\ options' = options)
          => (nodes' = nodes /\ edges' = edges
              /\ height' = height /\ width' = width)]_vars

\* a second run on a tree whose root and one of its children carry
\* footprints larger than one box
C12_Witness ==
    /\ stage = "laidOut"
    /\ runs = 2
    /\ \E c \in Kids(heap, root) :
          /\ Len(heap[c].children) >= 2
          /\ Footprint(c) < Footprint(root)

\* the tree root -> [A -> [A1, A2], B]: objects 1 = root, 2 = A, 3 = A1,
\* 4 = A2, 5 = B
ScenarioTree ==
    TreeHeap(5, [c \in 2..5 |-> IF c \in {3, 4} THEN 2 ELSE 1])

\* C13 (scenario): in the left-to-right layout of root -> [A -> [A1, A2], B]
\* the footprints are 140 for A1, A2 and B, 304 for A and 468 for the root;
\* B's span has the size of a single-node footprint and B's box fills it;
\* A1 and A2 are centred under A (A's box centre is the midpoint of their
\* spans and of their boxes), and their spans end before B's span starts.
C13_Scenario ==
    (stage = "laidOut" /\ layout = "LR" /\ heap = ScenarioTree) =>
        /\ height[3] = 140 /\ height[4] = 140 /\ height[5] = 140
        /\ height[2] = 304
        /\ height[1] = 468
        /\ SpanEnd(5) - SpanStart(5) = LR_NODE_HEIGHT
        /\ Entry(5).y = SpanStart(5)
        /\ Entry(5).y + LR_NODE_HEIGHT = SpanEnd(5)
        /\ 2 * Entry(2).y + LR_NODE_HEIGHT = SpanStart(3) + SpanEnd(4)
        /\ 2 * Entry(2).y = Entry(3).y + Entry(4).y
        /\ Entry(3).x = Entry(4).x
        /\ Entry(3).x = Entry(2).x + LR_NODE_WIDTH + RANK_SPACING
        /\ SpanEnd(3) < SpanStart(5)
        /\ SpanEnd(4) < SpanStart(5)
        /\ SpanStart(5) = SpanEnd(2) + NODE_SPACING

\* the left-to-right layout has run on the scenario tree
C13_Witness ==
    /\ stage = "laidOut"
    /\ layout = "LR"
    /\ heap = ScenarioTree
    /\ Len(nodes) = 5

\* C14 (null tree): a run of the layout computation on null data yields an
\* empty node list and an empty edge list, raises no error, and invokes
\* neither the metric pass nor assignPositions.
C14_NullTree ==
    [][(root = NullRef /\ runs' = runs + 1)
          => /\ nodes' = <<>>
             /\ edges' = <<>>
             /\ error' = error
             /\ stage' = stage
             /\ passes' = passes
             /\ height' = height
             /\ width' = width]_vars

\* the layout computation has run on null data
C14_Witness ==
    /\ root = NullRef
    /\ runs >= 1
    /\ stage = "idle"
    /\ nodes = <<>>
    /\ edges = <<>>

----------------------------------------------------------------------------
(* The App, checked under SpecApp *)

\* C15 (pipeline failure surfacing): once extractTextFromPDF or
\* generateMindMap has failed (an empty generated node list included), the
\* App has status.step = 'error' with the failure message and
\* mindMapData = null, and is never 'complete'; handleFileSelect calls
\* generateMindMap at most once per file selection.
C15_FailureSurfaced ==
    /\ thrown # JsUndefined =>
          /\ status = [step |-> "error", message |-> thrown]
          /\ mindMapData = NullRef
    /\ stage = "failed" =>
          /\ thrown = Str(GenerateFailure(EMPTY_ERROR))
          /\ status.step = "error"
          /\ mindMapData = NullRef
    /\ status.step = "complete" => (thrown = JsUndefined /\ stage # "failed")
    /\ generateCalls <= 1

\* generateMindMap was called and failed on an empty node list
C15_Witness ==
    /\ stage = "failed"
    /\ flatNodes = <<>>
    /\ generateCalls = 1
    /\ status.step = "error"

\* C16 (navigation callback): a click on a rendered node (graph or outline)
\* makes exactly one onNodeClick call, with that node's pageNumber and
\* quote; after it currentPage and activeQuote are those two values and the
\* sidebar is open, while file, mindMapData, status and activeTab are
\* unchanged.
C16_Navigation ==
    [][(ClickGraphNode \/ ClickOutlineNode)
          => /\ Len(lastClick'.calls) = 1
             /\ lastClick'.calls[1] = [pageNumber |-> lastClick'.page,
                                       quote |-> lastClick'.quote]
             /\ currentPage' = lastClick'.page
             /\ activeQuote' = lastClick'.quote
             /\ isSidebarOpen' = TRUE
             /\ UNCHANGED <<file, mindMapData, status, activeTab>>]_vars

\* a node of the graph on page 2 with a quote has been clicked
C16_Witness ==
    /\ activeTab = "map"
    /\ stage = "laidOut"
    /\ Len(lastClick.calls) = 1
    /\ lastClick.page = 2
    /\ lastClick.quote = Str("q")
    /\ currentPage = 2
    /\ activeQuote = Str("q")

----------------------------------------------------------------------------
(* Root policies, checked under SpecBuild, and parentId normalization,      *)
(* checked under SpecNorm                                                  *)

\* record i is top-level: its parentId is null-like or names an absent id
TopLevel(flat, i) == NullLike(flat[i].parentId) \/ Dangling(flat, i)

TopLevelRecords(flat) == {i \in DOMAIN flat : TopLevel(flat, i)}

\* the node the map holds for record i
NodeOf(i) == nodeMap.val[flatNodes[i].id]

\* the nodes of the records of S, in source order
RECURSIVE NodesInOrder(_, _)
NodesInOrder(S, i) ==
    IF i > Len(flatNodes) THEN <<>>
    ELSE (IF i \in S THEN <<NodeOf(i)>> ELSE <<>>) \o NodesInOrder(S, i + 1)

\* C17 (synthetic-root mode): the synthetic-root variant returns, for every
\* input, a synthesized root with id 'root-synthetic' that is the node of no
\* record; when at least one record is top-level the root's children are
\* the nodes of the top-level records in source order (also when there is
\* exactly one).
C17_SyntheticRoot ==
    variant = "synthetic" =>
        /\ stage = "built"
        /\ root \in DOMAIN heap
        /\ heap[root].id = SYNTHETIC_ID
        /\ heap[root].src = 0
        /\ root \notin Range(MapValues(nodeMap))
        /\ TopLevelRecords(flatNodes) # {} =>
              heap[root].children
                  = NodesInOrder(TopLevelRecords(flatNodes), 1)

\* a synthetic-root build of an input whose only top-level record is not
\* its first record
C17_Witness ==
    /\ variant = "synthetic"
    /\ stage = "built"
    /\ Cardinality(TopLevelRecords(flatNodes)) = 1
    /\ 1 \notin TopLevelRecords(flatNodes)
    /\ Len(heap[root].children) = 1

\* the first top-level record of the input
FirstTopLevel(flat) ==
    CHOOSE i \in TopLevelRecords(flat) :
        \A j \in TopLevelRecords(flat) : i <= j

\* C18 (adopt-first-root mode): in the adopt-first-root variant, if exactly
\* one record is top-level its node is the returned root; otherwise the root
\* is the first node in input order (the first top-level one when there are
\* several, the first record's when there is none), and the node of every
\* other top-level record is reachable from that root.
C18_AdoptFirstRoot ==
    (variant = "adopt" /\ Len(flatNodes) > 0) =>
        LET top == TopLevelRecords(flatNodes)
        IN  /\ stage = "built"
            /\ Cardinality(top) = 1 => root = NodeOf(FirstTopLevel(flatNodes))
            /\ Cardinality(top) = 0 => root = NodeOf(1)
            /\ Cardinality(top) > 1 =>
                  /\ root = NodeOf(FirstTopLevel(flatNodes))
                  /\ \A i \in top : NodeOf(i) \in Reachable(heap, root)

\* the structure under r is a tree: no node below itself, none owned twice
IsTree(h, r) ==
    /\ \A a \in Reachable(h, r) : a \notin Descendants(h, a)
    /\ \A a \in DOMAIN h : Occurrences(h, r, a) <= 1

\* C19 (unlinkable-input fallback): in the synthetic-root variant, when the
\* input has at least one record and none is top-level, the call does not
\* fail, the synthetic root's children are all nodes of the map in map
\* insertion order, and what is returned is a tree.
C19_UnlinkableFallback ==
    (variant = "synthetic" /\ Len(flatNodes) > 0
        /\ TopLevelRecords(flatNodes) = {}) =>
        /\ stage = "built"
        /\ error = ""
        /\ heap[root].children = MapValues(nodeMap)
        /\ IsTree(heap, root)

\* the first two conjuncts of C19 alone: the fallback attaches every node of
\* the map under the synthetic root and the call returns
C19_AttachesAll ==
    (variant = "synthetic" /\ Len(flatNodes) > 0
        /\ TopLevelRecords(flatNodes) = {}) =>
        /\ stage = "built"
        /\ error = ""
        /\ heap[root].children = MapValues(nodeMap)

\* the records whose parentId is null-like
NullLikeRecords(flat) == {i \in DOMAIN flat : NullLike(flat[i].parentId)}

\* the records that name id k as their parent by a parentId that is not
\* null-like
NamingParent(flat, k) ==
    {j \in DOMAIN flat : ~NullLike(flat[j].parentId) /\ flat[j].parentId.s = k}

\* C20 (parentId normalization): in each variant a record whose parentId is
\* missing/undefined, null, "" or "null" has no parent: the children list
\* of every node of the map holds exactly the nodes of the records that
\* name its id by a parentId that is not null-like (so a node with id
\* "null" or "" has no children), and the null-like records are handled as
\* top-level: their nodes are children of the synthetic root, or, in the
\* adopt-first-root variant, the first of them is the root.
C20_ParentIdNormalized ==
    (variant # "none" /\ Len(flatNodes) > 0) =>
        /\ \A k \in DOMAIN nodeMap.val :
              heap[nodeMap.val[k]].children
                  = NodesInOrder(NamingParent(flatNodes, k), 1)
        /\ \A k \in {"null", ""} :
              MapHas(nodeMap, k) => heap[nodeMap.val[k]].children = <<>>
        /\ variant = "synthetic" =>
              \A i \in NullLikeRecords(flatNodes) :
                  NodeOf(i) \in Range(heap[root].children)
        /\ (variant = "adopt" /\ NullLikeRecords(flatNodes) # {}) =>
              \E i \in NullLikeRecords(flatNodes) :
                  /\ \A j \in NullLikeRecords(flatNodes) : i <= j
                  /\ root = NodeOf(i)

\* a build (adopt-first-root) of an input with a record of id "null", a
\* record of id "" and records whose parentId is "null" and ""
C20_Witness ==
    /\ variant = "adopt"
    /\ stage = "built"
    /\ {"null", ""} \subseteq IdsOf(flatNodes)
    /\ \E i, j \in DOMAIN flatNodes :
          /\ flatNodes[i].parentId = Str("null")
          /\ flatNodes[j].parentId = Str("")

----------------------------------------------------------------------------
(* Reconstructed nodes, checked under SpecBuild *)

\* the ids of the records are pairwise distinct
DistinctIds(flat) ==
    \A i, j \in DOMAIN flat : i # j => flat[i].id # flat[j].id

\* C21 (children order), as stated: for an input with distinct ids, the
\* children list of every node of the reconstructed tree, the synthesized
\* root included, holds the nodes of exactly the records whose normalized
\* parentId equals the node's id, in input order.
C21_ChildrenOrderEveryNode ==
    (variant # "none" /\ stage = "built" /\ DistinctIds(flatNodes)) =>
        \A a \in Reachable(heap, root) :
            heap[a].children
                = NodesInOrder(NamingParent(flatNodes, heap[a].id), 1)

\* C21 (children order), amended: for an input with distinct ids, the
\* children list of every node made from a record holds the nodes of
\* exactly the records whose normalized parentId equals the node's id, in
\* input order, wherever the parent's record stands; the synthesized root
\* holds the nodes of the top-level records in input order or, when there is
\* none, every node of the map in map order.
C21_ChildrenOrder ==
    (variant # "none" /\ stage = "built" /\ DistinctIds(flatNodes)) =>
        /\ \A k \in DOMAIN nodeMap.val :
              heap[nodeMap.val[k]].children
                  = NodesInOrder(NamingParent(flatNodes, k), 1)
        /\ variant = "synthetic" =>
              heap[root].children
                  = IF TopLevelRecords(flatNodes) # {}
                    THEN NodesInOrder(TopLevelRecords(flatNodes), 1)
                    ELSE MapValues(nodeMap)

\* a parent with two children whose records both stand before the
\* parent's record
C21_Witness ==
    /\ variant # "none"
    /\ stage = "built"
    /\ DistinctIds(flatNodes)
    /\ Len(flatNodes) = 3
    /\ flatNodes[1].parentId = Str(flatNodes[3].id)
    /\ flatNodes[2].parentId = Str(flatNodes[3].id)
    /\ heap[NodeOf(3)].children = <<NodeOf(1), NodeOf(2)>>

\* the pageNumber of record i is a number
NumericPage(flat, i) == RawField(flat[i], "pageNumber").t = "number"

\* C22 (pageNumber validity), checked under SpecPage: every node of the
\* reconstructed tree has a pageNumber that is an integer >= 1, and the node
\* of a record whose pageNumber is missing or not a number has pageNumber 1.
C22_PageNumberValid ==
    (variant # "none" /\ stage = "built") =>
        /\ \A a \in Reachable(heap, root) :
              heap[a].pageNumber \in Int /\ heap[a].pageNumber >= 1
        /\ \A i \in DOMAIN flatNodes :
              (DistinctIds(flatNodes) /\ ~NumericPage(flatNodes, i)) =>
                  heap[NodeOf(i)].pageNumber = 1

\* the second half of C22 alone: a missing or non-numeric pageNumber
\* becomes 1
C22_DefaultsToOne ==
    (variant # "none" /\ stage = "built") =>
        \A i \in DOMAIN flatNodes :
            (DistinctIds(flatNodes) /\ ~NumericPage(flatNodes, i)) =>
                heap[NodeOf(i)].pageNumber = 1

----------------------------------------------------------------------------
(* Metric pass and positions, checked under SpecLayout *)

\* sum of the footprints of the nodes of a list
RECURSIVE SumFootprints(_, _)
SumFootprints(cs, i) ==
    IF i > Len(cs) THEN 0 ELSE Footprint(cs[i]) + SumFootprints(cs, i + 1)

\* the children's footprints plus one spacing between consecutive children
ChildrenTotal(a) ==
    SumFootprints(heap[a].children, 1)
        + (Len(heap[a].children) - 1) * Spacing

\* C23 (footprint formula): after the metric pass every childless node has
\* footprint BASE (140 left-to-right, 260 top-down) and every node with
\* children has footprint max(BASE, sum of the children's footprints +
\* (n - 1) * SPACING), hence at least that sum.
C23_FootprintFormula ==
    stage = "laidOut" =>
        \A a \in DOMAIN heap :
            IF Len(heap[a].children) = 0
            THEN Footprint(a) = BoxSecondary
            ELSE /\ Footprint(a) = Max(BoxSecondary, ChildrenTotal(a))
                 /\ Footprint(a) >= ChildrenTotal(a)

\* a top-down layout of a node with three children, one of them with
\* children of its own
C23_Witness ==
    /\ stage = "laidOut"
    /\ layout = "TD"
    /\ \E a \in DOMAIN heap :
          /\ Len(heap[a].children) = 3
          /\ \E c \in Kids(heap, a) : Len(heap[c].children) >= 2

\* depth of node object a in the tree under root
RECURSIVE Depth(_)
Depth(a) ==
    IF a = root THEN 0
    ELSE 1 + Depth(CHOOSE p \in DOMAIN heap : a \in Kids(heap, p))

\* emitted coordinate along the primary axis, and the distance of two ranks
Primary(e) == IF layout = "LR" THEN e.x ELSE e.y

RankStep ==
    IF layout = "LR" THEN LR_NODE_WIDTH + RANK_SPACING
    ELSE TD_NODE_HEIGHT + Y_SPACING

\* C24 (rank offset): an emitted node at tree depth d has primary-axis
\* coordinate d * (node dimension + rank gap): x = 420 d left-to-right,
\* y = 220 d top-down, whatever its siblings and its subtree.
C24_RankOffset ==
    stage = "laidOut" =>
        /\ RankStep = (IF layout = "LR" THEN 420 ELSE 220)
        /\ \A k \in DOMAIN nodes :
              Primary(nodes[k]) = Depth(nodes[k].node) * RankStep

\* a left-to-right layout with a node at depth 3 and, at depth 1, siblings
\* with subtrees of different sizes
C24_Witness ==
    /\ stage = "laidOut"
    /\ layout = "LR"
    /\ \E a \in DOMAIN heap : Depth(a) = 3
    /\ \E c, d \in Kids(heap, root) : Footprint(c) # Footprint(d)

(***************************************************************************)
(* The display toolbar: both graph components keep their options in React  *)
(* state, change one field per button and recompute the layout memo when   *)
(* data or options change.                                                 *)
(***************************************************************************)
MaxOptionNodes == 4

FontSizes == {"small", "medium", "large"}
EdgeTypes == {"straight", "smoothstep", "default"}

\* the toolbar is rendered once the component has rendered its graph
ToolbarShown == stage = "laidOut" /\ runs < MaxRuns

\* onClick={() => setOptions(o => ({...o, fontSize: f}))}
SetFontSize ==
    /\ ToolbarShown
    /\ \E f \in FontSizes : options' = [options EXCEPT !.fontSize = f]
    /\ UNCHANGED <<stage, variant, flatNodes, heap, nodeMap, root, error,
                   layout, height, width, nodes, edges, runs, passes>>
    /\ UNCHANGED appVars

\* onClick={() => setOptions(o => ({...o, edgeType: t}))}
SetEdgeType ==
    /\ ToolbarShown
    /\ \E t \in EdgeTypes : options' = [options EXCEPT !.edgeType = t]
    /\ UNCHANGED <<stage, variant, flatNodes, heap, nodeMap, root, error,
                   layout, height, width, nodes, edges, runs, passes>>
    /\ UNCHANGED appVars

InitOptions ==
    /\ InitApp
    /\ variant = "none"
    /\ flatNodes = <<>>
    /\ stage = "built"
    /\ \E n \in 1..MaxOptionNodes :
          \E par \in ParentVectors(n) : heap = TreeHeap(n, par)
    /\ root = 1
    /\ nodeMap = EmptyMap
    /\ error = ""
    /\ layout = "none"
    /\ height = NoScratch
    /\ width = NoScratch
    /\ options = DefaultOptions
    /\ nodes = <<>>
    /\ edges = <<>>
    /\ runs = 0
    /\ passes = 0

NextOptions == LayoutLR \/ LayoutTD \/ SetFontSize \/ SetEdgeType

SpecOptions == InitOptions /\ [][NextOptions]_vars

\* what a run emits apart from styling: node ids with positions, and the
\* id, source and target of every edge
Geometry(ns) == [k \in DOMAIN ns |-> <<ns[k].id, ns[k].x, ns[k].y>>]
Links(es) == [k \in DOMAIN es |-> <<es[k].id, es[k].source, es[k].target>>]

FontClassTable ==
    [small |-> "text-xs", medium |-> "text-sm", large |-> "text-base"]

\* C25: a layout run styles every edge with options.edgeType and every node
\* with the class mapped from options.fontSize, and a re-run of the same
\* layout on the same tree after any change of options emits the same node
\* ids, positions and edge id / source / target as the run before it.
C25_OptionsPassthrough ==
    [][(stage' = "laidOut" /\ runs' = runs + 1) =>
         /\ \A k \in DOMAIN edges' : edges'[k].type = options'.edgeType
         /\ \A k \in DOMAIN nodes' :
               nodes'[k].fontSizeClass = FontClassTable[options'.fontSize]
         /\ stage = "laidOut" =>
               /\ Geometry(nodes') = Geometry(nodes)
               /\ Links(edges') = Links(edges)]_vars

\* a second run, after both options were changed, restyled a graph of at
\* least three nodes
C25_Witness ==
    /\ stage = "laidOut"
    /\ runs = 2
    /\ Len(nodes) >= 3
    /\ options.fontSize = "large"
    /\ options.edgeType = "straight"
    /\ nodes[1].fontSizeClass = "text-base"
    /\ edges[1].type = "straight"

FirstChild(a) == heap[a].children[1]
LastChild(a) == heap[a].children[Len(heap[a].children)]

\* C26 (footprint exact for internal nodes): for every node with at least
\* one child the maximum selects the children's total, so the footprint is
\* exactly that total; left-to-right the children-block offset
\* (node.height - childrenStackHeight) / 2 is 0; and in both layouts the
\* first child's span starts where the node's span starts and the last
\* child's span ends where the node's span ends.
C26_FootprintExact ==
    stage = "laidOut" =>
        \A a \in DOMAIN heap :
            Len(heap[a].children) > 0 =>
                /\ ChildrenTotal(a) >= BoxSecondary
                /\ Footprint(a) = ChildrenTotal(a)
                /\ layout = "LR" =>
                      childrenOffsetLR(height[a],
                          childrenStackHeight(height, heap[a].children)) = 0
                /\ SpanStart(FirstChild(a)) = SpanStart(a)
                /\ SpanEnd(LastChild(a)) = SpanEnd(a)

\* a left-to-right layout in which a node below the root has two children
\* and the root has further children
C26_Witness ==
    /\ stage = "laidOut"
    /\ layout = "LR"
    /\ Len(heap[root].children) >= 2
    /\ \E a \in Kids(heap, root) :
          /\ Len(heap[a].children) = 2
          /\ SpanStart(FirstChild(a)) = SpanStart(a)
          /\ SpanStart(a) > 0

\* the node objects of the subtree under a, each node before its children's
\* subtrees, those in children order
RECURSIVE PreOrder(_)
RECURSIVE PreOrderAll(_, _)
PreOrder(a) == <<a>> \o PreOrderAll(heap[a].children, 1)

PreOrderAll(cs, i) ==
    IF i > Len(cs) THEN <<>>
    ELSE PreOrder(cs[i]) \o PreOrderAll(cs, i + 1)

\* C27 (output order): the emitted node list is the pre-order traversal of
\* the tree, and the edge list is in the same order: the k-th edge's target
\* is the (k+1)-th node of the node list.
C27_OutputOrder ==
    stage = "laidOut" =>
        /\ [k \in DOMAIN nodes |-> nodes[k].node] = PreOrder(root)
        /\ Len(edges) = Len(nodes) - 1
        /\ \A k \in DOMAIN edges : edges[k].target = nodes[k + 1].id

\* a laid-out tree whose root's first child has children of its own and is
\* followed by a sibling: pre-order differs from level order
C27_Witness ==
    /\ stage = "laidOut"
    /\ Len(heap[root].children) >= 2
    /\ Len(heap[FirstChild(root)].children) >= 2
    /\ Len(edges) >= 4

(***************************************************************************)
(* Trees whose ids contain the '-' character that also joins the two ids   *)
(* of an edge id.  Ids are free-form strings chosen by the generator.      *)
(***************************************************************************)
MaxDashNodes == 4

DashIds == {"a", "a-b", "b-c", "c", "d"}

\* assignments of pairwise distinct ids to n node objects
DistinctIdChoices(n) ==
    {f \in [1..n -> DashIds] : \A i, j \in 1..n : i # j => f[i] # f[j]}

DashHeap(n, par, f) ==
    [a \in 1..n |-> [TreeHeap(n, par)[a] EXCEPT !.id = f[a]]]

InitDash ==
    /\ InitApp
    /\ variant = "none"
    /\ flatNodes = <<>>
    /\ stage = "built"
    /\ \E n \in 1..MaxDashNodes :
          \E par \in ParentVectors(n) :
             \E f \in DistinctIdChoices(n) : heap = DashHeap(n, par, f)
    /\ root = 1
    /\ nodeMap = EmptyMap
    /\ error = ""
    /\ layout = "none"
    /\ height = NoScratch
    /\ width = NoScratch
    /\ options = DefaultOptions
    /\ nodes = <<>>
    /\ edges = <<>>
    /\ runs = 0
    /\ passes = 0

NextDash == LayoutLR \/ LayoutTD

SpecDash == InitDash /\ [][NextDash]_vars

\* C28 (edge ids unique): for every tree whose node ids are pairwise
\* distinct strings, every emitted edge's id is its parent's id, '-' and its
\* child's id, and any two distinct emitted edges have distinct ids.
C28_EdgeIdsUnique ==
    (stage = "laidOut"
        /\ \A a, b \in DOMAIN heap : a # b => heap[a].id # heap[b].id) =>
        /\ \A k \in DOMAIN edges :
              edges[k].id = edges[k].source \o "-" \o edges[k].target
        /\ \A j, k \in DOMAIN edges :
              j # k => edges[j].id # edges[k].id

\* the moves of status.step the claim allows
StepMoves ==
    {<<"idle", "extracting">>, <<"extracting", "analyzing">>,
     <<"analyzing", "complete">>, <<"extracting", "error">>,
     <<"analyzing", "error">>, <<"complete", "idle">>, <<"error", "idle">>}

C29_StatusData ==
    /\ status.step = "complete" => (file # JsNull /\ mindMapData # NullRef)
    /\ status.step \in {"idle", "extracting", "analyzing", "error"} =>
          mindMapData = NullRef

C29_StatusMoves ==
    status'.step # status.step =>
        /\ <<status.step, status'.step>> \in StepMoves
        /\ status'.step = "idle" =>
              (file' = JsNull /\ mindMapData' = NullRef
                 /\ activeQuote' = JsUndefined)

\* C29 (App status invariant): whenever status.step is 'complete' both file
\* and mindMapData are non-null, and whenever it is 'idle', 'extracting',
\* 'analyzing' or 'error' mindMapData is null; status.step only moves
\* idle -> extracting -> analyzing -> complete, to error from extracting or
\* analyzing, and back to idle by handleReset.
C29_AppStatus == []C29_StatusData /\ [][C29_StatusMoves]_vars

\* a second file is being read after a node of the first file's map was
\* clicked and the App was reset
C29_Witness ==
    /\ status.step = "analyzing"
    /\ mindMapData = NullRef
    /\ file # JsNull
    /\ currentPage # 1

(***************************************************************************)
(* extractTextFromPDF with the timer: every call creates a timeoutPromise  *)
(* that a 20 s timer rejects, an extractionPromise, and returns            *)
(* Promise.race of the two.  The timer is never cleared and the extraction *)
(* is never cancelled, so both finish sooner or later, in either order.    *)
(***************************************************************************)
MaxRaceCalls == 2

TIMEOUT_ERROR ==
    "PDF extraction timed out (20s). The file may be too large or the network is slow."

NO_LIBRARY_ERROR ==
    "PDF.js library is not loaded. Please check your internet connection and refresh the page."

\* messages extractionPromise rejects with after its first await
LateExtractErrors ==
    {"Could not extract text. The PDF might be a scanned image.",
     "Unknown error during PDF extraction"}

ExtractedTexts == {"--- PAGE 1 START ---", "--- PAGE 2 START ---"}

Unsettled == [state |-> "pending", value |-> ""]
Fulfilled(v) == [state |-> "fulfilled", value |-> v]
Rejected(msg) == [state |-> "rejected", value |-> msg]

\* the raced promise taking every settlement of its inputs, the last one
\* standing
settleRace_last(result, outcome) == outcome

\* the resolving functions of the promise Promise.race returns: the first
\* call settles it, later calls are ignored
settleRace(result, outcome) ==
    IF result.state = "pending" THEN outcome ELSE result

\* one input of the race settles with outcome; first and settles are history
\* fields (which input finished first, how often the result was written)
InputSettled(c, who, outcome) ==
    LET r == settleRace(c.result, outcome)
    IN  [c EXCEPT !.result = r,
                  !.first = IF c.first = "none" THEN who ELSE c.first,
                  !.settles = IF r # c.result THEN c.settles + 1
                              ELSE c.settles]

RaceFrame ==
    /\ UNCHANGED <<file, mindMapData, status, currentPage, activeQuote,
                   isSidebarOpen, activeTab, pending, generateCalls, thrown,
                   lastClick>>
    /\ UNCHANGED pipeVars

\* a call of extractTextFromPDF up to its return: the timer is set, the
\* executor of extractionPromise runs to its first await, or rejects at once
\* when window.pdfjsLib is missing
CallExtract ==
    /\ Len(race) < MaxRaceCalls
    /\ \E libraryLoaded \in BOOLEAN :
          LET fresh == [extraction |-> Unsettled, timer |-> "armed",
                        result |-> Unsettled, first |-> "none", settles |-> 0]
              begun == IF libraryLoaded THEN fresh
                       ELSE InputSettled(
                                [fresh EXCEPT !.extraction =
                                                  Rejected(NO_LIBRARY_ERROR)],
                                "extraction", Rejected(NO_LIBRARY_ERROR))
          IN  race' = Append(race, begun)
    /\ RaceFrame

\* resolve(fullText)
ExtractionResolves ==
    /\ \E i \in DOMAIN race :
          /\ race[i].extraction.state = "pending"
          /\ \E text \in ExtractedTexts :
                race' = [race EXCEPT ![i] =
                           InputSettled([@ EXCEPT !.extraction = Fulfilled(text)],
                                        "extraction", Fulfilled(text))]
    /\ RaceFrame

\* reject(new Error(error.message || "Unknown error during PDF extraction"))
ExtractionRejects ==
    /\ \E i \in DOMAIN race :
          /\ race[i].extraction.state = "pending"
          /\ \E msg \in LateExtractErrors :
                race' = [race EXCEPT ![i] =
                           InputSettled([@ EXCEPT !.extraction = Rejected(msg)],
                                        "extraction", Rejected(msg))]
    /\ RaceFrame

\* the setTimeout callback: reject(new Error(TIMEOUT_ERROR))
TimerFires ==
    /\ \E i \in DOMAIN race :
          /\ race[i].timer = "armed"
          /\ race' = [race EXCEPT ![i] =
                        InputSettled([@ EXCEPT !.timer = "fired"],
                                     "timer", Rejected(TIMEOUT_ERROR))]
    /\ RaceFrame

NextRace ==
    CallExtract \/ ExtractionResolves \/ ExtractionRejects \/ TimerFires

SpecRace == Init /\ [][NextRace]_vars

\* the result of call c is that of the input that finished first
C30_FirstWins ==
    \A i \in DOMAIN race :
        LET c == race[i]
        IN  /\ c.settles <= 1
            /\ c.first = "none" <=> c.result.state = "pending"
            /\ c.first = "none" <=> c.settles = 0
            /\ c.first = "timer" => c.result = Rejected(TIMEOUT_ERROR)
            /\ c.first = "extraction" => c.result = c.extraction

\* a settled result is never written again
C30_SettledStays ==
    \A i \in DOMAIN race :
        race[i].result.state # "pending" => race'[i].result = race[i].result

\* C30 (extraction timeout race): the promise extractTextFromPDF returns
\* settles exactly once, with the outcome of whichever of the extraction and
\* the timer finishes first: the timeout rejection when the timer fires
\* first, whatever the extraction does later, and the extraction's outcome
\* when it finishes first, whatever the timer does later.
C30_TimeoutRace == []C30_FirstWins /\ [][C30_SettledStays]_vars

\* both orders have run to the end: one call timed out and its extraction
\* succeeded afterwards, another call's extraction succeeded and its timer
\* fired afterwards
C30_Witness ==
    \E i, j \in DOMAIN race :
        /\ race[i].first = "timer"
        /\ race[i].extraction.state = "fulfilled"
        /\ race[i].result.state = "rejected"
        /\ race[j].first = "extraction"
        /\ race[j].timer = "fired"
        /\ race[j].result.state = "fulfilled"

====
